---- MODULE Spec2Model ----
(***************************************************************************)
(* A model of src/src/interpreter.rs: Interpreter::build, which translates *)
(* source text into a sequence of Op values with folded moves/adds and     *)
(* resolved jump addresses, and Interpreter::execute, which runs that      *)
(* sequence against a 30000-cell byte tape and two byte streams.           *)
(*                                                                         *)
(* Indices keep the values they have in the Rust code (0-based); TLA+      *)
(* sequences are 1-based, so bytes[i] of the code is code[i + 1] here.     *)
(***************************************************************************)
EXTENDS Integers, Sequences, FiniteSets, TLC

\* ------------------------------------------------------------- bounds
\* Longest source text enumerated exhaustively for the translator.
MaxLen == 4
\* Longest source text enumerated exhaustively for build-then-execute.
ExecLen == 3
\* Most write calls one execution may make (caps programs that print forever).
MaxWrites == 3
\* Most steps of the unfolded reference run that is compared with an execution.
RefFuel == 40000

\* ---------------------------------------------------- program constants
\* let mut data = [0u8; 30000];
DataLen == 30000
\* ... || d_offset as isize + d >= 30000
MoveLimit == 30000
\* width of a tape cell: u8
CellMod == 256

\* ------------------------------------------------------------ the bytes
Commands == {"<", ">", "+", "-", ".", ",", "[", "]"}
\* "\n" is the newline byte, "x" stands for every other (comment) byte.
Alphabet == Commands \cup {"\n", "x"}

\* All sequences over S of length 0..n.
SeqsUpTo(S, n) == UNION {[1..k -> S] : k \in 0..n}

\* n copies of byte c.
Repeat(c, n) == [k \in 1..n |-> c]

Min(S) == CHOOSE x \in S : \A y \in S : x <= y

\* ---------------------------------------------------------------- Op
Move(d) == [op |-> "Move", d |-> d]
Add(d) == [op |-> "Add", d |-> d]
Out == [op |-> "Out"]
In == [op |-> "In"]
JmpZ(addr) == [op |-> "JmpZ", addr |-> addr]
JmpNz(addr) == [op |-> "JmpNz", addr |-> addr]

LeftBracketInfo(l, c, a) == [line |-> l, col |-> c, addr |-> a]

NoBuildError == [line |-> 0, col |-> 0, kind |-> "None"]
BuildError(l, c, k) == [line |-> l, col |-> c, kind |-> k]

NoRuntimeError == [kind |-> "None", idx |-> 0, err |-> ""]
DataOverflow(idx) == [kind |-> "DataOverflow", idx |-> idx, err |-> ""]
IO(msg) == [kind |-> "IO", idx |-> 0, err |-> msg]

\* -------------------------------------------------------------- tape
\* [0u8; 30000], held as the function from its non-zero cells to their values.
ZeroTape == [p \in {} |-> 0]

\* data[p]
Cell(tape, p) == IF p \in DOMAIN tape THEN tape[p] ELSE 0

\* data[p] = v
StoreNext(tape, p, v) ==
  IF v = 0
    THEN [q \in DOMAIN tape \ {p + 1} |-> tape[q]]
    ELSE [q \in DOMAIN tape \cup {p + 1} |-> IF q = p + 1 THEN v ELSE tape[q]]

Store(tape, p, v) ==
  IF v = 0
    THEN [q \in DOMAIN tape \ {p} |-> tape[q]]
    ELSE [q \in DOMAIN tape \cup {p} |-> IF q = p THEN v ELSE tape[q]]

VARIABLES
  code,       \* build's argument: the bytes of the source text
  pc,         \* "build", "build_err", "built", "exec", "halted", "faulted"
  i,          \* build: index of the byte being scanned
  line,       \* build: current line
  col,        \* build: current column
  result,     \* build: the Ops emitted so far
  jmp_stack,  \* build: LeftBracketInfo of the open brackets
  buildErr,   \* the BuildError build returned, NoBuildError otherwise
  ops,        \* Interpreter.ops
  data,       \* execute: the tape, as its non-zero cells (index -> value)
  d_offset,   \* execute: the data pointer
  i_offset,   \* execute: the instruction cursor
  input,      \* the read stream: bytes not yet read
  consumed,   \* the read stream: bytes already read, in order
  rbad,       \* the read stream fails every read
  out,        \* the write stream: bytes accepted so far
  wres,       \* results of the write calls made so far, in order
  runErr,     \* the RuntimeError execute returned, NoRuntimeError otherwise
  entered,    \* history: the cell tested by the last JmpZ that fell through
  trips       \* history: JmpNz steps since then, counted up to CellMod

buildVars == <<i, line, col, result, jmp_stack, buildErr, ops>>
execVars == <<data, d_offset, i_offset, input, consumed, rbad, out, wres, runErr,
              entered, trips>>
vars == <<code, pc, i, line, col, result, jmp_stack, buildErr, ops,
          data, d_offset, i_offset, input, consumed, rbad, out, wres, runErr,
          entered, trips>>

\* ------------------------------------------------------------- build
\* bytes[i] of the Rust code.
Byte(bytes, k) == bytes[k + 1]

\* The value of i when the inner while loop of a `<`/`>` or `+`/`-` arm exits:
\* i advances while i + 1 < bytes.len() and bytes[i + 1] is one of the two bytes.
FoldEnd(bytes, k, minus, plus) ==
  LET stop == {j \in (k + 1)..(Len(bytes) - 1) : Byte(bytes, j) \notin {minus, plus}}
  IN IF stop = {} THEN Len(bytes) - 1 ELSE Min(stop) - 1

\* The delta the arm accumulates over bytes[k..e]: -1 per minus, +1 per plus.
FoldDeltaLastByte(bytes, k, e, minus, plus) ==
  IF Byte(bytes, e) = plus THEN 1 ELSE -1

FoldDelta(bytes, k, e, minus, plus) ==
  Cardinality({j \in k..e : Byte(bytes, j) = plus})
    - Cardinality({j \in k..e : Byte(bytes, j) = minus})

\* result after the arm: one op carrying delta, nothing when delta is 0.
PushFoldedAlways(res, op, delta) == Append(res, [op |-> op, d |-> delta])

PushFolded(res, op, delta) ==
  IF delta # 0 THEN Append(res, [op |-> op, d |-> delta]) ELSE res

\* The tail of the loop body: col += 1; i += 1.
Advance(k, c) ==
  /\ col' = c + 1
  /\ i' = k + 1

InitBuild(src) ==
  /\ code = src
  /\ pc = "build"
  /\ i = 0
  /\ line = 1
  /\ col = 1
  /\ result = <<>>
  /\ jmp_stack = <<>>
  /\ buildErr = NoBuildError
  /\ ops = <<>>
  /\ data = ZeroTape
  /\ d_offset = 0
  /\ i_offset = 0
  /\ input = <<>>
  /\ consumed = <<>>
  /\ rbad = FALSE
  /\ out = <<>>
  /\ wres = <<>>
  /\ runErr = NoRuntimeError
  /\ entered = 0
  /\ trips = 0

Scanning(c) ==
  /\ pc = "build"
  /\ i < Len(code)
  /\ Byte(code, i) \in c

\* b'<' | b'>'
BuildMove ==
  /\ Scanning({"<", ">"})
  /\ LET e == FoldEnd(code, i, "<", ">")
         delta == FoldDelta(code, i, e, "<", ">")
     IN /\ result' = PushFolded(result, "Move", delta)
        /\ Advance(e, col)
  /\ UNCHANGED <<code, pc, line, jmp_stack, buildErr, ops>>
  /\ UNCHANGED execVars

\* b'+' | b'-'
BuildAdd ==
  /\ Scanning({"+", "-"})
  /\ LET e == FoldEnd(code, i, "-", "+")
         delta == FoldDelta(code, i, e, "-", "+")
     IN /\ result' = PushFolded(result, "Add", delta)
        /\ Advance(e, col)
  /\ UNCHANGED <<code, pc, line, jmp_stack, buildErr, ops>>
  /\ UNCHANGED execVars

\* b'.'
BuildOut ==
  /\ Scanning({"."})
  /\ result' = Append(result, Out)
  /\ Advance(i, col)
  /\ UNCHANGED <<code, pc, line, jmp_stack, buildErr, ops>>
  /\ UNCHANGED execVars

\* b','
BuildIn ==
  /\ Scanning({","})
  /\ result' = Append(result, In)
  /\ Advance(i, col)
  /\ UNCHANGED <<code, pc, line, jmp_stack, buildErr, ops>>
  /\ UNCHANGED execVars

\* b'[': push the placeholder, record where it is.
OpenBracketZeroBased(res, stack, l, c) ==
  LET pushed == Append(res, JmpZ(0))
  IN [result |-> pushed,
      jmp_stack |-> Append(stack, LeftBracketInfo(l, c, Len(res)))]

OpenBracket(res, stack, l, c) ==
  LET pushed == Append(res, JmpZ(0))
  IN [result |-> pushed,
      jmp_stack |-> Append(stack, LeftBracketInfo(l, c, Len(pushed)))]

BuildOpen ==
  /\ Scanning({"["})
  /\ LET r == OpenBracket(result, jmp_stack, line, col)
     IN /\ result' = r.result
        /\ jmp_stack' = r.jmp_stack
  /\ Advance(i, col)
  /\ UNCHANGED <<code, pc, line, buildErr, ops>>
  /\ UNCHANGED execVars

\* b']' with Some(info): push JmpNz { addr: info.addr }, then patch
\* result[info.addr - 1] = JmpZ { addr: result.len() }.
CloseBracketBackToBracket(res, info) ==
  LET pushed == Append(res, JmpNz(info.addr - 1))
  IN [pushed EXCEPT ![(info.addr - 1) + 1] = JmpZ(Len(pushed))]

CloseBracketPastEnd(res, info) ==
  LET pushed == Append(res, JmpNz(info.addr))
  IN [pushed EXCEPT ![(info.addr - 1) + 1] = JmpZ(Len(pushed) + 1)]

CloseBracket(res, info) ==
  LET pushed == Append(res, JmpNz(info.addr))
  IN [pushed EXCEPT ![(info.addr - 1) + 1] = JmpZ(Len(pushed))]

BuildClose ==
  /\ Scanning({"]"})
  /\ jmp_stack # <<>>
  /\ LET info == jmp_stack[Len(jmp_stack)]
     IN /\ jmp_stack' = SubSeq(jmp_stack, 1, Len(jmp_stack) - 1)
        /\ result' = CloseBracket(result, info)
  /\ Advance(i, col)
  /\ UNCHANGED <<code, pc, line, buildErr, ops>>
  /\ UNCHANGED execVars

\* b']' with None: return Err(BracketNotMatch) at the current line and col.
BuildNotMatch ==
  /\ Scanning({"]"})
  /\ jmp_stack = <<>>
  /\ buildErr' = BuildError(line, col, "BracketNotMatch")
  /\ pc' = "build_err"
  /\ UNCHANGED <<code, i, line, col, result, jmp_stack, ops>>
  /\ UNCHANGED execVars

\* b'\n': line += 1; col = 0; then the tail.
BuildNewline ==
  /\ Scanning({"\n"})
  /\ line' = line + 1
  /\ Advance(i, 0)
  /\ UNCHANGED <<code, pc, result, jmp_stack, buildErr, ops>>
  /\ UNCHANGED execVars

\* _ => {}
BuildOther ==
  /\ Scanning(Alphabet \ (Commands \cup {"\n"}))
  /\ Advance(i, col)
  /\ UNCHANGED <<code, pc, line, result, jmp_stack, buildErr, ops>>
  /\ UNCHANGED execVars

\* After the loop: if let Some(info) = jmp_stack.pop() { return Err(BracketNotClosed) }
\* The pop gives Some exactly when the stack is not empty ...
UnclosedNever(stack) == FALSE

Unclosed(stack) == stack # <<>>

\* ... and info is the entry it removes, the last one pushed.
NotClosedInfo(stack) == stack[Len(stack)]

BuildNotClosed ==
  /\ pc = "build"
  /\ i >= Len(code)
  /\ Unclosed(jmp_stack)
  /\ LET info == NotClosedInfo(jmp_stack)
     IN buildErr' = BuildError(info.line, info.col, "BracketNotClosed")
  /\ jmp_stack' = SubSeq(jmp_stack, 1, Len(jmp_stack) - 1)
  /\ pc' = "build_err"
  /\ UNCHANGED <<code, i, line, col, result, ops>>
  /\ UNCHANGED execVars

\* Ok(Self { ops: result })
BuildOk ==
  /\ pc = "build"
  /\ i >= Len(code)
  /\ ~Unclosed(jmp_stack)
  /\ ops' = result
  /\ pc' = "built"
  /\ UNCHANGED <<code, i, line, col, result, jmp_stack, buildErr>>
  /\ UNCHANGED execVars

BuildNext ==
  \/ BuildMove
  \/ BuildAdd
  \/ BuildOut
  \/ BuildIn
  \/ BuildOpen
  \/ BuildClose
  \/ BuildNotMatch
  \/ BuildNewline
  \/ BuildOther
  \/ BuildNotClosed
  \/ BuildOk

\* ----------------------------------------------------------- execute
\* The streams handed to execute. A read stream is the bytes it holds and
\* whether every read fails (MockInOut); the write stream answers each write
\* call with an error, 0 bytes accepted or 1 byte accepted.
Inputs == {<<>>, <<0>>, <<1>>, <<255>>, <<2, 1>>, <<104, 105>>}

ReadStreams ==
  {[data |-> s, bad |-> FALSE] : s \in Inputs} \cup {[data |-> <<>>, bad |-> TRUE]}

\* Err(e), Ok(0), Ok(1)
WriteResults == {"Err", "Ok0", "Ok1"}

\* let mut data = [0u8; 30000]; let mut d_offset = 0usize; let mut i_offset = 0usize;
StartExecute ==
  /\ pc = "built"
  /\ pc' = "exec"
  /\ \E rs \in ReadStreams :
       /\ input' = rs.data
       /\ rbad' = rs.bad
  /\ data' = ZeroTape
  /\ d_offset' = 0
  /\ i_offset' = 0
  /\ UNCHANGED <<code, consumed, out, wres, runErr, entered, trips>>
  /\ UNCHANGED buildVars

Running(kind) ==
  /\ pc = "exec"
  /\ i_offset < Len(ops)
  /\ ops[i_offset + 1].op = kind

\* if d < 0 && -d as usize > d_offset || d_offset as isize + d >= 30000
MoveFaultsPastEnd(p, d) == (d < 0 /\ -d > p) \/ (p + d > MoveLimit)

MoveFaults(p, d) == (d < 0 /\ -d > p) \/ (p + d >= MoveLimit)

\* DataOverflow { idx: d_offset as isize + d }
OverflowIdxClamped(p, d) == IF p + d < 0 THEN 0 ELSE MoveLimit - 1

OverflowIdx(p, d) == p + d

\* Move { d }
ExecMove ==
  /\ Running("Move")
  /\ LET d == ops[i_offset + 1].d
     IN IF MoveFaults(d_offset, d)
          THEN /\ runErr' = DataOverflow(OverflowIdx(d_offset, d))
               /\ pc' = "faulted"
               /\ UNCHANGED <<d_offset, i_offset>>
          ELSE /\ d_offset' = d_offset + d
               /\ i_offset' = i_offset + 1
               /\ UNCHANGED <<pc, runErr>>
  /\ UNCHANGED <<code, data, input, consumed, rbad, out, wres, entered, trips>>
  /\ UNCHANGED buildVars

\* (data[d_offset] as isize + d) as u8
AddCellSaturating(v, d) ==
  IF v + d > CellMod - 1 THEN CellMod - 1 ELSE IF v + d < 0 THEN 0 ELSE v + d

AddCell(v, d) == (v + d) % CellMod

\* Add { d }
ExecAdd ==
  /\ Running("Add")
  /\ data' = Store(data, d_offset, AddCell(Cell(data, d_offset), ops[i_offset + 1].d))
  /\ i_offset' = i_offset + 1
  /\ UNCHANGED <<code, pc, d_offset, input, consumed, rbad, out, wres, runErr, entered, trips>>
  /\ UNCHANGED buildVars

\* Out: write.write(&data[d_offset..d_offset + 1]).map_err(..)?; the number of
\* bytes the call reports as written is not looked at.
ExecOut ==
  /\ Running("Out")
  /\ Len(wres) < MaxWrites
  /\ \E r \in WriteResults :
       /\ wres' = Append(wres, r)
       /\ out' = IF r = "Ok1" THEN Append(out, Cell(data, d_offset)) ELSE out
       /\ IF r = "Err"
            THEN /\ runErr' = IO("write")
                 /\ pc' = "faulted"
                 /\ UNCHANGED i_offset
            ELSE /\ i_offset' = i_offset + 1
                 /\ UNCHANGED <<pc, runErr>>
  /\ UNCHANGED <<code, data, d_offset, input, consumed, rbad, entered, trips>>
  /\ UNCHANGED buildVars

\* In: read.read_exact(&mut data[d_offset..d_offset + 1]).map_err(..)?; a stream
\* with no byte left makes read_exact fail ("failed to fill whole buffer").
ExecInShortRead ==
  /\ Running("In")
  /\ IF rbad
       THEN /\ runErr' = IO("read")
            /\ pc' = "faulted"
            /\ UNCHANGED <<data, i_offset, input, consumed>>
       ELSE IF input = <<>>
         THEN /\ i_offset' = i_offset + 1
              /\ UNCHANGED <<pc, runErr, data, input, consumed>>
         ELSE /\ data' = Store(data, d_offset, Head(input))
              /\ input' = Tail(input)
              /\ consumed' = Append(consumed, Head(input))
              /\ i_offset' = i_offset + 1
              /\ UNCHANGED <<pc, runErr>>
  /\ UNCHANGED <<code, d_offset, rbad, out, wres, entered, trips>>
  /\ UNCHANGED buildVars

ExecIn ==
  /\ Running("In")
  /\ IF rbad
       THEN /\ runErr' = IO("read")
            /\ pc' = "faulted"
            /\ UNCHANGED <<data, i_offset, input, consumed>>
       ELSE IF input = <<>>
         THEN /\ runErr' = IO("failed to fill whole buffer")
              /\ pc' = "faulted"
              /\ UNCHANGED <<data, i_offset, input, consumed>>
         ELSE /\ data' = Store(data, d_offset, Head(input))
              /\ input' = Tail(input)
              /\ consumed' = Append(consumed, Head(input))
              /\ i_offset' = i_offset + 1
              /\ UNCHANGED <<pc, runErr>>
  /\ UNCHANGED <<code, d_offset, rbad, out, wres, entered, trips>>
  /\ UNCHANGED buildVars

\* The cursor after a jump op: addr - 1 when taken, then i_offset += 1.
JumpNoBack(taken, addr, cursor) == (IF taken THEN addr ELSE cursor) + 1

Jump(taken, addr, cursor) == (IF taken THEN addr - 1 ELSE cursor) + 1

\* JmpZ { addr }
ExecJmpZ ==
  /\ Running("JmpZ")
  /\ i_offset' = Jump(Cell(data, d_offset) = 0, ops[i_offset + 1].addr, i_offset)
  /\ entered' = IF Cell(data, d_offset) = 0 THEN entered ELSE Cell(data, d_offset)
  /\ trips' = IF Cell(data, d_offset) = 0 THEN trips ELSE 0
  /\ UNCHANGED <<code, pc, data, d_offset, input, consumed, rbad, out, wres, runErr>>
  /\ UNCHANGED buildVars

ExecJmpNzFallsThrough ==
  /\ Running("JmpNz")
  /\ i_offset' = i_offset + 1
  /\ trips' = IF trips < CellMod THEN trips + 1 ELSE trips
  /\ UNCHANGED <<code, pc, data, d_offset, input, consumed, rbad, out, wres, runErr, entered>>
  /\ UNCHANGED buildVars

\* JmpNz { addr }
ExecJmpNz ==
  /\ Running("JmpNz")
  /\ i_offset' = Jump(Cell(data, d_offset) # 0, ops[i_offset + 1].addr, i_offset)
  /\ trips' = IF trips < CellMod THEN trips + 1 ELSE trips
  /\ UNCHANGED <<code, pc, data, d_offset, input, consumed, rbad, out, wres, runErr, entered>>
  /\ UNCHANGED buildVars

\* The while loop ends: Ok(())
ExecHaltEarly ==
  /\ pc = "exec"
  /\ i_offset + 1 >= Len(ops)
  /\ pc' = "halted"
  /\ UNCHANGED <<code, data, d_offset, i_offset, input, consumed, rbad, out, wres, runErr, entered, trips>>
  /\ UNCHANGED buildVars

ExecHalt ==
  /\ pc = "exec"
  /\ i_offset >= Len(ops)
  /\ pc' = "halted"
  /\ UNCHANGED <<code, data, d_offset, i_offset, input, consumed, rbad, out, wres, runErr, entered, trips>>
  /\ UNCHANGED buildVars

ExecNext ==
  \/ StartExecute
  \/ ExecMove
  \/ ExecAdd
  \/ ExecOut
  \/ ExecIn
  \/ ExecJmpZ
  \/ ExecJmpNz
  \/ ExecHalt

\* ------------------------------------------- build and execute as functions
\* build(bytes) and execute(ops, streams) evaluated in one piece, from the same
\* arms as the actions above, to relate the runs of two source texts.
BuildStart == [i |-> 0, result |-> <<>>, jmp_stack |-> <<>>, status |-> "build"]

\* One iteration of build's while loop (line and col left out: they do not
\* reach the ops).
BuildArm(bytes, s) ==
  LET c == Byte(bytes, s.i)
  IN CASE c \in {"<", ">"} ->
            LET e == FoldEnd(bytes, s.i, "<", ">")
            IN [s EXCEPT !.result = PushFolded(s.result, "Move", FoldDelta(bytes, s.i, e, "<", ">")),
                         !.i = e + 1]
       [] c \in {"+", "-"} ->
            LET e == FoldEnd(bytes, s.i, "-", "+")
            IN [s EXCEPT !.result = PushFolded(s.result, "Add", FoldDelta(bytes, s.i, e, "-", "+")),
                         !.i = e + 1]
       [] c = "." -> [s EXCEPT !.result = Append(s.result, Out), !.i = s.i + 1]
       [] c = "," -> [s EXCEPT !.result = Append(s.result, In), !.i = s.i + 1]
       [] c = "[" ->
            LET r == OpenBracket(s.result, s.jmp_stack, 0, 0)
            IN [s EXCEPT !.result = r.result, !.jmp_stack = r.jmp_stack, !.i = s.i + 1]
       [] c = "]" ->
            IF s.jmp_stack = <<>>
              THEN [s EXCEPT !.status = "build_err"]
              ELSE [s EXCEPT !.result = CloseBracket(s.result, s.jmp_stack[Len(s.jmp_stack)]),
                             !.jmp_stack = SubSeq(s.jmp_stack, 1, Len(s.jmp_stack) - 1),
                             !.i = s.i + 1]
       [] OTHER -> [s EXCEPT !.i = s.i + 1]

RECURSIVE BuildFrom(_, _)
BuildFrom(bytes, s) ==
  IF s.status # "build" THEN s
  ELSE IF s.i >= Len(bytes)
    THEN [s EXCEPT !.status = IF Unclosed(s.jmp_stack) THEN "build_err" ELSE "built"]
  ELSE BuildFrom(bytes, BuildArm(bytes, s))

\* build(bytes): status "built" with the ops in result, or "build_err".
BuildFn(bytes) == BuildFrom(bytes, BuildStart)

ExecStart(stream, bad) ==
  [i_offset |-> 0, d_offset |-> 0, data |-> ZeroTape, input |-> stream, rbad |-> bad,
   out |-> <<>>, writes |-> 0, status |-> "exec", runErr |-> NoRuntimeError]

\* One iteration of execute's while loop; answers are the write results in call
\* order, status "more" when the run makes a write call they do not cover.
ExecArm(seq, s, answers) ==
  LET o == seq[s.i_offset + 1]
      v == Cell(s.data, s.d_offset)
      next == [s EXCEPT !.i_offset = s.i_offset + 1]
      fault(e) == [s EXCEPT !.status = "faulted", !.runErr = e]
  IN CASE o.op = "Move" ->
            IF MoveFaults(s.d_offset, o.d)
              THEN fault(DataOverflow(OverflowIdx(s.d_offset, o.d)))
              ELSE [next EXCEPT !.d_offset = s.d_offset + o.d]
       [] o.op = "Add" -> [next EXCEPT !.data = Store(s.data, s.d_offset, AddCell(v, o.d))]
       [] o.op = "Out" ->
            IF s.writes >= Len(answers) THEN [s EXCEPT !.status = "more"]
            ELSE LET r == answers[s.writes + 1]
                 IN IF r = "Err"
                      THEN [fault(IO("write")) EXCEPT !.writes = s.writes + 1]
                      ELSE [next EXCEPT !.writes = s.writes + 1,
                                        !.out = IF r = "Ok1" THEN Append(s.out, v) ELSE s.out]
       [] o.op = "In" ->
            IF s.rbad THEN fault(IO("read"))
            ELSE IF s.input = <<>> THEN fault(IO("failed to fill whole buffer"))
            ELSE [next EXCEPT !.data = Store(s.data, s.d_offset, Head(s.input)),
                              !.input = Tail(s.input)]
       [] o.op = "JmpZ" -> [s EXCEPT !.i_offset = Jump(v = 0, o.addr, s.i_offset)]
       [] o.op = "JmpNz" -> [s EXCEPT !.i_offset = Jump(v # 0, o.addr, s.i_offset)]

\* At most n more iterations (n >= 1), split in halves to nest only log n deep.
RECURSIVE ExecFrom(_, _, _, _)
ExecFrom(seq, s, answers, n) ==
  IF s.status # "exec" THEN s
  ELSE IF s.i_offset >= Len(seq) THEN [s EXCEPT !.status = "halted"]
  ELSE IF n = 1 THEN ExecArm(seq, s, answers)
  ELSE LET half == n \div 2
           mid == ExecFrom(seq, s, answers, half)
       IN ExecFrom(seq, mid, answers, n - half)

\* execute(seq, read, write): status "halted" or "faulted"; "exec" when it has
\* not returned within RefFuel iterations.
ExecuteFn(seq, stream, bad, answers) ==
  LET s == ExecFrom(seq, ExecStart(stream, bad), answers, RefFuel)
  IN IF s.status = "exec" /\ s.i_offset >= Len(seq) THEN [s EXCEPT !.status = "halted"] ELSE s

\* The translator alone, on every source text of at most MaxLen bytes.
BuildSources == SeqsUpTo(Alphabet, MaxLen)

InitBuildOnly == \E src \in BuildSources : InitBuild(src)

SpecBuild == InitBuildOnly /\ [][BuildNext]_vars

\* The programs of the tests of interpreter.rs, and programs that take the
\* pointer to the ends of the tape and a cell past 255.
TestPrograms ==
  { <<"<", "+", ">", "-", ".", ",", "[", "]">>,
    <<"<", ">", "<", "<", ">", ">", "<", "+", "-", "+", "+", "-", "-", "+", "<", ">", "+", "-">>,
    <<",", ">", ",", ".", "<", ".">>,
    Repeat(">", DataLen),
    Repeat(">", DataLen - 1) \o <<".">>,
    Repeat(">", DataLen - 1) \o <<".", ">", ">">>,
    Repeat("+", CellMod + 1) \o <<".">>,
    Repeat("-", CellMod + 1) \o <<".">>,
    <<",", "[", ">", "+", "+", "<", "-", "]", ">", ".">>,
    <<",", "[", ".", "-", "]">>,
    <<">", ">", ".", "<", "<", "<", "<", "<">>,
    <<"[", "[", "\n", "]", "]", "]", "+", "+", "+">>,
    <<"[", "[", "[", "\n", "]", "]", "+", "+">>,
    <<"+", "+", "x", "\n", ">", "x", "+", ".">> }

\* build, then execute, as main does.
ExecSources == SeqsUpTo(Commands, ExecLen) \cup TestPrograms

Init == \E src \in ExecSources : InitBuild(src)

Next == BuildNext \/ ExecNext

Spec == Init /\ [][Next]_vars

\* main runs build and execute to their return: a step that can be taken is taken.
SpecLive == Spec /\ WF_vars(Next)

\* build, then execute, on every source text of at most ExecLen bytes, comment
\* and newline bytes included.
CommentedSources == SeqsUpTo(Alphabet, ExecLen)

InitCommented == \E src \in CommentedSources : InitBuild(src)

SpecCommented == InitCommented /\ [][Next]_vars

\* ------------------------------------------------------ the source text
\* What the claims say about a source text, stated on the text itself.
\* Positions p are 1-based byte positions.

\* Number of `[` minus number of `]` among the first k bytes.
Depth(bytes, k) ==
  Cardinality({p \in 1..k : bytes[p] = "["}) - Cardinality({p \in 1..k : bytes[p] = "]"})

\* The `]` bytes scanned while no `[` is open.
UnmatchedCloses(bytes) ==
  {p \in 1..Len(bytes) : bytes[p] = "]" /\ Depth(bytes, p - 1) = 0
                          /\ \A q \in 1..(p - 1) : Depth(bytes, q) >= 0}

Balanced(bytes) ==
  /\ \A k \in 0..Len(bytes) : Depth(bytes, k) >= 0
  /\ Depth(bytes, Len(bytes)) = 0

\* 1 + number of newline bytes before p.
LineOf(bytes, p) == 1 + Cardinality({q \in 1..(p - 1) : bytes[q] = "\n"})

\* 1 + number of bytes between the last newline before p (or the start) and p.
ColOf(bytes, p) ==
  LET nl == {q \in 1..(p - 1) : bytes[q] = "\n"}
      last == IF nl = {} THEN 0 ELSE CHOOSE q \in nl : \A r \in nl : r <= q
  IN p - last

Returned == pc # "build"
BuiltOk == pc \in {"built", "exec", "halted", "faulted"}

\* A maximal run of directly adjacent bytes of `set` starts at p ...
RunStartsAt(bytes, p, set) ==
  /\ bytes[p] \in set
  /\ (p = 1 \/ bytes[p - 1] \notin set)

\* ... and ends at the first position from p on whose successor is not in `set`.
RunLast(bytes, p, set) ==
  CHOOSE e \in p..Len(bytes) :
    /\ \A q \in p..e : bytes[q] \in set
    /\ (e = Len(bytes) \/ bytes[e + 1] \notin set)

\* (number of plus) - (number of minus) in the run that starts at p.
RunSum(bytes, p, minus, plus) ==
  LET e == RunLast(bytes, p, {minus, plus})
  IN Cardinality({q \in p..e : bytes[q] = plus})
       - Cardinality({q \in p..e : bytes[q] = minus})

Nothing == [op |-> "none"]

\* The op the claim expects for the byte position p (a jump without its address),
\* Nothing when p emits no op.
ExpectedAt(bytes, p) ==
  IF RunStartsAt(bytes, p, {"<", ">"})
    THEN LET d == RunSum(bytes, p, "<", ">") IN IF d = 0 THEN Nothing ELSE Move(d)
  ELSE IF RunStartsAt(bytes, p, {"+", "-"})
    THEN LET d == RunSum(bytes, p, "-", "+") IN IF d = 0 THEN Nothing ELSE Add(d)
  ELSE IF bytes[p] = "." THEN Out
  ELSE IF bytes[p] = "," THEN In
  ELSE IF bytes[p] = "[" THEN [op |-> "JmpZ"]
  ELSE IF bytes[p] = "]" THEN [op |-> "JmpNz"]
  ELSE Nothing

Emits(bytes, p) == ExpectedAt(bytes, p).op # "none"

\* How many ops the positions 1..p emit.
Rank(bytes, p) == Cardinality({q \in 1..p : Emits(bytes, q)})

\* ---------------------------------------------------------------- C1
\* C1: when the source holds a `]` scanned with no `[` open, build fails with
\* BracketNotMatch at the exact 1-based line and column of the first such `]`,
\* every byte before it counted, those folded into a Move/Add run included.
C1_NotMatchAtExactPosition ==
  LET S == UnmatchedCloses(code)
  IN (Returned /\ S # {}) =>
       buildErr = BuildError(LineOf(code, Min(S)), ColOf(code, Min(S)), "BracketNotMatch")

\* ---------------------------------------------------------------- C2
\* C2: when the end of input is reached with `[` still on the bracket stack,
\* build fails with BracketNotClosed at the position recorded for the outermost
\* unmatched `[`, the bottom of the stack.
C2_NotClosedReportsOutermost ==
  [][(pc = "build" /\ i >= Len(code) /\ jmp_stack # <<>>) =>
       /\ pc' = "build_err"
       /\ buildErr' = BuildError(jmp_stack[1].line, jmp_stack[1].col, "BracketNotClosed")]_vars

\* ---------------------------------------------------------------- C3
\* C3: build returns Ok exactly when the brackets are balanced and correctly
\* nested; otherwise it returns a BuildError and no instruction sequence.
C3_OkIffBalanced ==
  Returned =>
    IF Balanced(code)
      THEN BuiltOk /\ buildErr = NoBuildError
      ELSE /\ pc = "build_err"
           /\ buildErr.kind \in {"BracketNotMatch", "BracketNotClosed"}
           /\ ops = <<>>

C3_Witness ==
  /\ pc = "built"
  /\ Len(code) = 4
  /\ code[1] = "[" /\ code[2] = "[" /\ code[4] = "]"

\* ---------------------------------------------------------------- C4
IsOp(seq, a, kind) == a \in 0..(Len(seq) - 1) /\ seq[a + 1].op = kind

\* Jumps strictly between addresses a and b pair up among themselves.
JumpsNested(seq, a, b) ==
  LET opens(k) == Cardinality({j \in (a + 1)..k : IsOp(seq, j, "JmpZ")})
      closes(k) == Cardinality({j \in (a + 1)..k : IsOp(seq, j, "JmpNz")})
  IN /\ \A k \in (a + 1)..(b - 1) : opens(k) >= closes(k)
     /\ opens(b - 1) = closes(b - 1)

\* C4: in a built sequence every JmpZ at address a has its JmpNz at b > a, with
\* targets b + 1 and a + 1, the pairs properly nested, every JmpNz in one pair,
\* and no JmpZ keeps the placeholder 0.
C4_JumpPairs ==
  BuiltOk =>
    /\ \A a \in 0..(Len(ops) - 1) : IsOp(ops, a, "JmpZ") =>
         LET b == ops[a + 1].addr - 1
         IN /\ ops[a + 1].addr # 0
            /\ b > a
            /\ IsOp(ops, b, "JmpNz")
            /\ ops[b + 1].addr = a + 1
            /\ JumpsNested(ops, a, b)
    /\ \A b \in 0..(Len(ops) - 1) : IsOp(ops, b, "JmpNz") =>
         LET a == ops[b + 1].addr - 1
         IN /\ a < b
            /\ IsOp(ops, a, "JmpZ")
            /\ ops[a + 1].addr = b + 1

C4_Witness ==
  /\ pc = "built"
  /\ ops = <<JmpZ(4), JmpZ(3), JmpNz(2), JmpNz(1)>>

\* ---------------------------------------------------------------- C5
\* The bytes scanned so far.
Scanned == SubSeq(code, 1, i)

\* C5: at every point of the scan the emitted ops are, in order, one Move per
\* maximal run of `<`/`>` with its delta #> - #<, one Add per maximal run of
\* `+`/`-` with its delta #+ - #-, nothing for a run that sums to 0, and one op
\* per `.`, `,`, `[`, `]`; so no Move or Add has delta 0.
C5_FoldsMaximalRuns ==
  /\ Len(result) = Rank(Scanned, i)
  /\ \A p \in 1..i : Emits(Scanned, p) =>
       LET want == ExpectedAt(Scanned, p)
           got == result[Rank(Scanned, p)]
       IN IF want.op \in {"JmpZ", "JmpNz"} THEN got.op = want.op ELSE got = want
  /\ \A k \in 1..Len(result) : result[k].op \in {"Move", "Add"} => result[k].d # 0

C5_Witness ==
  /\ pc = "built"
  /\ code = <<"<", ">", "+", "+">>
  /\ ops = <<Add(2)>>

\* ------------------------------------------------- unfolded execution
\* The yardstick of C6 and C7: the source run one command byte at a time, a
\* pointer step of 1 or a cell step of 1 per byte, against the same streams (the
\* bytes of the read stream, and the same answer to the k-th write call).
CommandsOf(bytes) == SelectSeq(bytes, LAMBDA c : c \in Commands)

\* 1-based position of the `]` that closes the `[` at a, and of the `[` that the
\* `]` at b closes.
CloserOf(cmds, a) ==
  Min({b \in (a + 1)..Len(cmds) :
         /\ cmds[b] = "]"
         /\ Cardinality({k \in a..b : cmds[k] = "["}) = Cardinality({k \in a..b : cmds[k] = "]"})})

OpenerOf(cmds, b) ==
  CHOOSE a \in 1..(b - 1) : cmds[a] = "[" /\ CloserOf(cmds, a) = b

RefStart(stream, bad) ==
  [at |-> 1, ptr |-> 0, tape |-> ZeroTape, inp |-> stream, bad |-> bad,
   read |-> <<>>, out |-> <<>>, writes |-> 0, status |-> "run", err |-> ""]

\* One command of the unfolded run; answers are the write results to replay.
RefStep(cmds, s, answers) ==
  LET c == cmds[s.at]
      v == Cell(s.tape, s.ptr)
      next == [s EXCEPT !.at = s.at + 1]
  IN CASE c = ">" -> IF s.ptr + 1 > 29999 THEN [s EXCEPT !.status = "overflow"]
                     ELSE [next EXCEPT !.ptr = s.ptr + 1]
       [] c = "<" -> IF s.ptr = 0 THEN [s EXCEPT !.status = "overflow"]
                     ELSE [next EXCEPT !.ptr = s.ptr - 1]
       [] c = "+" -> [next EXCEPT !.tape = Store(s.tape, s.ptr, IF v = 255 THEN 0 ELSE v + 1)]
       [] c = "-" -> [next EXCEPT !.tape = Store(s.tape, s.ptr, IF v = 0 THEN 255 ELSE v - 1)]
       [] c = "." -> IF s.writes >= Len(answers) THEN [s EXCEPT !.status = "more"]
                     ELSE LET r == answers[s.writes + 1]
                          IN IF r = "Err"
                               THEN [s EXCEPT !.status = "io", !.err = "write",
                                              !.writes = s.writes + 1]
                               ELSE [next EXCEPT !.writes = s.writes + 1,
                                                 !.out = IF r = "Ok1" THEN Append(s.out, v)
                                                         ELSE s.out]
       [] c = "," -> IF s.bad THEN [s EXCEPT !.status = "io", !.err = "read"]
                     ELSE IF s.inp = <<>>
                       THEN [s EXCEPT !.status = "io", !.err = "failed to fill whole buffer"]
                     ELSE [next EXCEPT !.tape = Store(s.tape, s.ptr, Head(s.inp)),
                                       !.inp = Tail(s.inp),
                                       !.read = Append(s.read, Head(s.inp))]
       [] c = "[" -> IF v = 0 THEN [s EXCEPT !.at = CloserOf(cmds, s.at) + 1] ELSE next
       [] c = "]" -> IF v # 0 THEN [s EXCEPT !.at = OpenerOf(cmds, s.at) + 1] ELSE next

\* The unfolded run after at most n more commands (n >= 1), the run split in
\* halves so that the evaluation nests only log n deep.
RECURSIVE RefRun(_, _, _, _)
RefRun(cmds, s, answers, n) ==
  IF s.status # "run" THEN s
  ELSE IF s.at > Len(cmds) THEN [s EXCEPT !.status = "ok"]
  ELSE IF n = 1 THEN RefStep(cmds, s, answers)
  ELSE LET half == n \div 2
           mid == RefRun(cmds, s, answers, half)
       IN RefRun(cmds, mid, answers, n - half)

\* The unfolded run of the program being executed, on the streams it was given;
\* status "fuel" when it has not ended within RefFuel commands.
Unfolded ==
  LET cmds == CommandsOf(code)
      s == RefRun(cmds, RefStart(consumed \o input, rbad), wres, RefFuel)
      end == IF s.status = "run" /\ s.at > Len(cmds) THEN [s EXCEPT !.status = "ok"] ELSE s
  IN IF end.status = "run" THEN [end EXCEPT !.status = "fuel"] ELSE end

Finished == pc \in {"halted", "faulted"}

\* ---------------------------------------------------------------- C6
\* C6: when the unfolded run of a built program never leaves the pointer range,
\* the execution of the folded translation ends with the same output bytes, the
\* same input bytes consumed and the same outcome.
C6_FoldingPreservesBehaviour ==
  Finished =>
    LET u == Unfolded
    IN u.status \notin {"overflow", "fuel"} =>
         /\ u.status = (IF pc = "halted" THEN "ok" ELSE "io")
         /\ u.out = out
         /\ u.read = consumed
         /\ pc = "faulted" => (runErr.kind = "IO" /\ runErr.err = u.err)

C6_Witness ==
  /\ pc = "halted"
  /\ code = <<",", "[", ">", "+", "+", "<", "-", "]", ">", ".">>
  /\ consumed = <<2>>
  /\ out = <<4>>

\* ---------------------------------------------------------------- C7
\* C7: whenever running a run of `<`/`>` one step at a time takes the pointer
\* out of range at some step, the execution of the built program also fails with
\* DataOverflow, a run whose net displacement is in range or zero included.
C7_FoldingKeepsPointerFaults ==
  (Finished /\ Unfolded.status = "overflow") =>
    (pc = "faulted" /\ runErr.kind = "DataOverflow")

\* ---------------------------------------------------------------- C8
AtOp == pc = "exec" /\ i_offset < Len(ops)
CurOp == ops[i_offset + 1]

\* C8: the data pointer is always in [0, 30000); a Move(d) from p succeeds
\* exactly when 0 <= p + d <= 29999 and then sets the pointer to p + d; no other
\* op changes the pointer.
C8_PointerStaysOnTape ==
  /\ [](d_offset \in 0..29999)
  /\ [][AtOp =>
          IF CurOp.op = "Move"
            THEN IF 0 <= d_offset + CurOp.d /\ d_offset + CurOp.d <= 29999
                   THEN pc' = "exec" /\ d_offset' = d_offset + CurOp.d
                   ELSE pc' = "faulted" /\ d_offset' = d_offset
            ELSE d_offset' = d_offset]_vars

C8_Witness ==
  /\ pc = "exec"
  /\ d_offset = 29999
  /\ i_offset = 1
  /\ ops[1] = Move(29999)

\* ---------------------------------------------------------------- C9
\* C9: a Move(d) at p with p + d < 0 or p + d >= 30000 makes execute return
\* DataOverflow carrying exactly p + d, leaves the tape, the pointer and both
\* streams as they were, and no instruction runs afterwards.
C9_OverflowReportsAttemptedIndex ==
  [][/\ (AtOp /\ CurOp.op = "Move"
            /\ (d_offset + CurOp.d < 0 \/ d_offset + CurOp.d >= 30000)) =>
          /\ pc' = "faulted"
          /\ runErr' = DataOverflow(d_offset + CurOp.d)
          /\ UNCHANGED <<data, d_offset, input, consumed, rbad, out, wres>>
     /\ pc # "faulted"]_vars

C9_Witness ==
  /\ pc = "faulted"
  /\ runErr = DataOverflow(30001)
  /\ d_offset = 29999
  /\ out # <<>>

\* --------------------------------------------------------------- C10
\* C10: Add(d) replaces the current cell v by (v + d) mod 256 for every folded
\* delta, |d| > 255 and negative sums included, and never faults; 255 + 1 is 0,
\* 0 - 1 is 255, and every cell is in 0..255 in every state.
C10_AddWraps ==
  /\ [](\A p \in DOMAIN data : p \in 0..29999 /\ data[p] \in 0..255)
  /\ [][(AtOp /\ CurOp.op = "Add") =>
          LET v == Cell(data, d_offset)
              w == Cell(data', d_offset)
          IN /\ pc' = "exec" /\ runErr' = NoRuntimeError
             /\ w \in 0..255
             /\ \E k \in -2..2 : w = v + CurOp.d + 256 * k
             /\ (v = 255 /\ CurOp.d = 1) => w = 0
             /\ (v = 0 /\ CurOp.d = -1) => w = 255]_vars

C10_Witness ==
  /\ pc = "exec"
  /\ i_offset = 1
  /\ ops[1] = Add(-257)
  /\ Cell(data, 0) = 255

\* --------------------------------------------------------------- C11
\* C11: an Input executed when the read stream is exhausted or its read fails
\* makes execute return an IO error at once: the cell, the cursor and the output
\* stay as they were, and no instruction runs and no byte is written afterwards.
C11_InputFailureAborts ==
  [][/\ (AtOp /\ CurOp.op = "In" /\ (rbad \/ input = <<>>)) =>
          /\ pc' = "faulted"
          /\ runErr'.kind = "IO"
          /\ UNCHANGED <<data, d_offset, i_offset, out, wres>>
     /\ (pc = "faulted" /\ runErr.kind = "IO") => UNCHANGED vars]_vars

C11_Witness ==
  /\ pc = "faulted"
  /\ runErr = IO("failed to fill whole buffer")
  /\ consumed = <<1>>
  /\ i_offset = 2

\* --------------------------------------------------------------- C12
\* C12: every executed Output either appends exactly one byte, the current
\* cell, to the output stream and continues, or makes execute return an IO
\* error and stop, whatever the write call answers (an error, 0 bytes or 1 byte
\* accepted).
C12_OutputNeverDropped ==
  [][(AtOp /\ CurOp.op = "Out") =>
       \/ /\ out' = Append(out, Cell(data, d_offset))
          /\ pc' = "exec"
          /\ i_offset' = i_offset + 1
       \/ /\ out' = out
          /\ pc' = "faulted"
          /\ runErr'.kind = "IO"]_vars

\* --------------------------------------------------------------- C13
\* The bytes the read stream was given, read or not.
Stream == consumed \o input

\* C13: the k-th executed Input stores the k-th byte of the input stream in the
\* current cell, and the output stream holds, in execution order, one byte per
\* executed Output, equal to the current cell at that step.
C13_IoInProgramOrder ==
  /\ [](Len(out) = Cardinality({k \in 1..Len(wres) : wres[k] # "Err"}))
  /\ [][/\ (AtOp /\ CurOp.op = "In" /\ pc' = "exec") =>
             /\ Len(consumed') = Len(consumed) + 1
             /\ Cell(data', d_offset) = Stream[Len(consumed) + 1]
        /\ (AtOp /\ CurOp.op = "Out" /\ pc' = "exec") =>
             out' = Append(out, Cell(data, d_offset))]_vars

\* --------------------------------------------------------------- C14
\* The cells that differ between two tapes.
Changed(t, u) == {q \in DOMAIN t \cup DOMAIN u : Cell(t, q) # Cell(u, q)}

\* C14: Add and a successful Input change only the cell under the pointer; Move
\* changes only the pointer; Output and the jumps change neither tape nor
\* pointer; execute never changes the instruction sequence.
C14_StepFrames ==
  [][/\ AtOp =>
          CASE CurOp.op \in {"Add", "In"} ->
                 Changed(data, data') \subseteq {d_offset} /\ d_offset' = d_offset
            [] CurOp.op = "Move" -> data' = data
            [] OTHER -> data' = data /\ d_offset' = d_offset
     /\ pc \in {"exec", "halted", "faulted"} => ops' = ops]_vars

C14_Witness ==
  /\ pc = "exec"
  /\ ops = <<Add(1), Move(1), Add(1)>>
  /\ i_offset = 3
  /\ Cell(data, 0) = 1 /\ Cell(data, 1) = 1

\* --------------------------------------------------------------- C15
\* The source with every non-command byte deleted, built and executed on the
\* streams of the execution under way.
Stripped == BuildFn(CommandsOf(code))
StrippedRun == ExecuteFn(Stripped.result, Stream, rbad, wres)

\* C15: a source and the source without its non-command bytes both fail to
\* build or both build, and when they build, their executions on the same
\* streams give the same output bytes and the same outcome.
C15_CommentBytesIgnored ==
  /\ Returned => (pc = "build_err" <=> Stripped.status = "build_err")
  /\ Finished =>
       \/ StrippedRun.status = "exec"
       \/ /\ StrippedRun.status = pc
          /\ StrippedRun.out = out
          /\ StrippedRun.runErr = runErr

\* --------------------------------------------------------------- C16
\* Nesting of the jump ops of seq at 1-based positions lo..hi.
OpDepth(seq, lo, hi) ==
  Cardinality({q \in lo..hi : seq[q].op = "JmpZ"}) - Cardinality({q \in lo..hi : seq[q].op = "JmpNz"})

\* 1-based position of the JmpNz matching the JmpZ at position k, and of the
\* JmpZ matching the JmpNz at position m, found from the nesting alone.
MatchingJmpNz(seq, k) ==
  Min({m \in (k + 1)..Len(seq) : seq[m].op = "JmpNz" /\ OpDepth(seq, k, m) = 0})
MatchingJmpZ(seq, m) ==
  CHOOSE k \in 1..(m - 1) : seq[k].op = "JmpZ" /\ MatchingJmpNz(seq, k) = m

\* C16: a JmpZ at cursor a on a zero cell continues at the address just after
\* its matching JmpNz (the body is not entered), on a nonzero cell at a + 1; a
\* JmpNz at cursor b on a nonzero cell continues at the address just after its
\* matching JmpZ, on a zero cell at b + 1.
C16_JumpSteps ==
  [][/\ (AtOp /\ CurOp.op = "JmpZ") =>
          /\ pc' = "exec"
          /\ i_offset' = IF Cell(data, d_offset) = 0
                           THEN (MatchingJmpNz(ops, i_offset + 1) - 1) + 1
                           ELSE i_offset + 1
     /\ (AtOp /\ CurOp.op = "JmpNz") =>
          /\ pc' = "exec"
          /\ i_offset' = IF Cell(data, d_offset) # 0
                           THEN (MatchingJmpZ(ops, i_offset + 1) - 1) + 1
                           ELSE i_offset + 1]_vars

\* `,[.-]` on input 2, back at the body after its JmpNz was taken on cell 1.
C16_Witness ==
  /\ pc = "exec"
  /\ ops = <<In, JmpZ(5), Out, Add(-1), JmpNz(2)>>
  /\ i_offset = 2
  /\ Cell(data, 0) = 1
  /\ out = <<2>>

\* --------------------------------------------------------------- C18
\* The error an op at the cursor can return.
FaultOf(o) ==
  CASE o.op = "Move" -> {"DataOverflow"}
    [] o.op \in {"In", "Out"} -> {"IO"}
    [] OTHER -> {}

\* C18: execute returns Ok exactly when the cursor has reached the length of
\* the ops with no fault, an error is the fault of the op at the cursor where
\* it stopped, and after either return nothing changes any more.
C18_ReturnsFirstFault ==
  /\ [](pc = "halted" => (i_offset = Len(ops) /\ runErr = NoRuntimeError))
  /\ [](pc = "faulted" => (i_offset < Len(ops) /\ runErr.kind \in FaultOf(CurOp)))
  /\ [](pc = "exec" => runErr = NoRuntimeError)
  /\ [][/\ (pc = "exec" /\ i_offset >= Len(ops)) => pc' = "halted"
        /\ AtOp => pc' \in {"exec", "faulted"}
        /\ pc \notin {"halted", "faulted"}]_vars

\* `,>,.<.` with a failing read stream: the first In returns the read error.
C18_Witness ==
  /\ pc = "faulted"
  /\ code = <<",", ">", ",", ".", "<", ".">>
  /\ runErr = IO("read")
  /\ i_offset = 0
  /\ wres = <<>>

\* --------------------------------------------------------------- C17
\* Net displacement of the Move ops of seq at 1-based positions lo..hi.
RECURSIVE NetMove(_, _, _)
NetMove(seq, lo, hi) ==
  IF lo > hi THEN 0
  ELSE NetMove(seq, lo, hi - 1) + (IF seq[hi].op = "Move" THEN seq[hi].d ELSE 0)

\* The op at position q of the body of the loop opened at position k acts on
\* the loop's test cell.
OnTestCell(seq, k, q) == NetMove(seq, k + 1, q - 1) = 0

\* Net amount the ops at positions k + 1..hi add to the test cell.
RECURSIVE NetAdd(_, _, _)
NetAdd(seq, k, hi) ==
  IF hi <= k THEN 0
  ELSE NetAdd(seq, k, hi - 1)
         + (IF seq[hi].op = "Add" /\ OnTestCell(seq, k, hi) THEN seq[hi].d ELSE 0)

\* The JmpZ at position k opens a loop whose body, read off the ops, takes 1
\* from the test cell and brings the pointer back: no jump in it, no In on the
\* test cell, net Move 0, net Add on the test cell -1 modulo CellMod.
DecLoop(seq, k) ==
  /\ seq[k].op = "JmpZ"
  /\ LET m == seq[k].addr
     IN /\ \A q \in (k + 1)..(m - 1) :
             /\ seq[q].op \notin {"JmpZ", "JmpNz"}
             /\ seq[q].op = "In" => ~OnTestCell(seq, k, q)
        /\ NetMove(seq, k + 1, m - 1) = 0
        /\ (NetAdd(seq, k, m - 1) + 1) % CellMod = 0

\* The cursor is in the body of the loop opened at position k, or on its JmpNz.
InLoop(k) == pc = "exec" /\ k <= i_offset /\ i_offset < ops[k].addr

DecLoops == {k \in 1..Len(ops) : DecLoop(ops, k)}
InDecLoop == \E k \in DecLoops : InLoop(k)

\* This step leaves such a loop through its JmpNz, on a zero cell, after as
\* many passes of the body as the value the loop was entered with, and
\* continues after the JmpNz.
ExitsAfterNPasses(k) ==
  /\ i_offset + 1 = ops[k].addr
  /\ Cell(data, d_offset) = 0
  /\ pc' = "exec"
  /\ i_offset' = (ops[k].addr - 1) + 1
  /\ trips' = entered

\* The test cell goes down by one per pass.
CountsDown ==
  \A k \in DecLoops : InLoop(k) =>
    /\ 1 <= entered /\ trips < entered
    /\ i_offset = k => Cell(data, d_offset) = entered - trips
    /\ i_offset + 1 = ops[k].addr => Cell(data, d_offset) = entered - trips - 1

\* The model stops a run at the write call after MaxWrites.
WritesCapped == AtOp /\ CurOp.op = "Out" /\ Len(wres) >= MaxWrites

\* C17 as stated: a decrement loop entered with n > 0 is left only after
\* exactly n passes of its body, at the op after its JmpNz, and is left.
C17_DecrementLoopRunsNTimes ==
  /\ []CountsDown
  /\ [][\A k \in DecLoops : (InLoop(k) /\ ~InLoop(k)') => ExitsAfterNPasses(k)]_vars
  /\ (InDecLoop ~> (~InDecLoop \/ WritesCapped))

\* C17 amended: a decrement loop entered with n > 0 is left either after
\* exactly n passes of its body, at the op after its JmpNz, or by execute
\* returning the error of an op of the body; in both cases it is left.
C17_RunsNTimesUnlessFault ==
  /\ []CountsDown
  /\ [][\A k \in DecLoops : (InLoop(k) /\ ~InLoop(k)') =>
          \/ ExitsAfterNPasses(k)
          \/ (pc' = "faulted" /\ runErr'.kind \in FaultOf(CurOp) /\ trips < entered)]_vars
  /\ (InDecLoop ~> (~InDecLoop \/ WritesCapped))

\* `,[>++<-]>.` on input 2: past the loop after two passes, 4 in the next cell.
C17_Witness ==
  /\ pc = "exec"
  /\ ops = <<In, JmpZ(7), Move(1), Add(2), Move(-1), Add(-1), JmpNz(2), Move(1), Out>>
  /\ i_offset = 7
  /\ entered = 2 /\ trips = 2
  /\ Cell(data, 0) = 0 /\ Cell(data, 1) = 4

\* --------------------------------------------------------------- C19
\* C19: in the ops of a successful build every jump target is in
\* 1..Len(ops), and the cursor of execute stays in 0..Len(ops).
C19_TargetsAndCursorInRange ==
  pc \in {"built", "exec", "halted", "faulted"} =>
    /\ \A k \in 1..Len(ops) :
         ops[k].op \in {"JmpZ", "JmpNz"} => (1 <= ops[k].addr /\ ops[k].addr <= Len(ops))
    /\ 0 <= i_offset /\ i_offset <= Len(ops)

\* `[]` on a zero cell: the JmpZ took the cursor to Len(ops).
C19_Witness ==
  /\ pc = "exec"
  /\ ops = <<JmpZ(2), JmpNz(1)>>
  /\ i_offset = 2

\* --------------------------------------------------------------- C20
\* 1-based positions of the placeholders JmpZ { addr: 0 } in res.
Placeholders(res) == {k \in 1..Len(res) : res[k] = JmpZ(0)}

\* C20: during the scan jmp_stack holds one entry per placeholder of result,
\* in increasing address order, entry.addr - 1 being the index of its
\* placeholder; a b']' appends one op and changes, of the ops already there,
\* only the placeholder of the entry it pops.
C20_StackTracksPlaceholders ==
  /\ [](pc = "build" =>
          /\ Len(jmp_stack) = Cardinality(Placeholders(result))
          /\ \A j \in 1..Len(jmp_stack) : (jmp_stack[j].addr - 1) + 1 \in Placeholders(result)
          /\ \A j \in 1..(Len(jmp_stack) - 1) : jmp_stack[j].addr < jmp_stack[j + 1].addr)
  /\ [][(Scanning({"]"}) /\ jmp_stack # <<>>) =>
          LET info == jmp_stack[Len(jmp_stack)]
          IN /\ jmp_stack' = SubSeq(jmp_stack, 1, Len(jmp_stack) - 1)
             /\ Len(result') = Len(result) + 1
             /\ result'[info.addr].op = "JmpZ" /\ result'[info.addr].addr # 0
             /\ \A k \in 1..Len(result) : k # info.addr => result'[k] = result[k]]_vars

\* `[][[` scanned: the first pair is patched, two placeholders are open.
C20_Witness ==
  /\ pc = "build"
  /\ result = <<JmpZ(2), JmpNz(1), JmpZ(0), JmpZ(0)>>
  /\ Len(jmp_stack) = 2
  /\ jmp_stack[1].addr = 3 /\ jmp_stack[2].addr = 4

====
